---- MODULE Spec2Model ----
(***************************************************************************)
(* Model of package filterfs: fs.FS wrappers that hide paths.              *)
(*                                                                         *)
(* A path is a sequence of one-character strings, so that filepath.Clean,  *)
(* filepath.Dir and filepath.Join are computed character by character as   *)
(* the library computes them.  "a/b" is <<"a", "/", "b">>.                 *)
(***************************************************************************)
EXTENDS Integers, Sequences, FiniteSets, TLC

\* ------------------------------------------------------------ bounds
\* Longest raw name handed to Open.
MaxLen == 3
\* Longest raw path handed to pathPrefixes in the pure-function specification.
MaxPathLen == 5
\* Most paths in one hide list.
MaxHide == 2
\* Most files in the underlying tree.
MaxFiles == 2
\* Largest count handed to ReadDir.
MaxN == 1
\* Most entries a failing storage ReadDir returns with its error.
MaxFault == 1

\* ------------------------------------------------------------ strings
Chars == {"a", "b", "/", "."}

Dot == <<".">>

Root == <<"/">>

RECURSIVE StringsUpTo(_)
StringsUpTo(n) ==
    IF n = 0 THEN {<<>>}
    ELSE LET shorter == StringsUpTo(n - 1)
         IN  shorter \cup {Append(s, c) : s \in {t \in shorter : Len(t) = n - 1}, c \in Chars}

\* Index of the last "/" of path at or before position i, 0 when there is none.
RECURSIVE LastSlash(_, _)
LastSlash(path, i) ==
    IF i = 0 THEN 0
    ELSE IF path[i] = "/" THEN i
    ELSE LastSlash(path, i - 1)

\* Index of the first "/" of path at or after position r, Len(path) + 1 when
\* there is none.
RECURSIVE ElemEnd(_, _)
ElemEnd(path, r) ==
    IF r > Len(path) THEN r
    ELSE IF path[r] = "/" THEN r
    ELSE ElemEnd(path, r + 1)

\* ------------------------------------------------------------ filepath
\* The ".." case of filepath.Clean: drop the output back to the last "/".
\* w counts the characters kept, as lazybuf.w does.
RECURSIVE BackLoop(_, _, _)
BackLoop(out, w, dotdot) ==
    IF w > dotdot /\ out[w + 1] # "/" THEN BackLoop(out, w - 1, dotdot)
    ELSE SubSeq(out, 1, w)

\* The loop of filepath.Clean; r is the 1-based read position.
RECURSIVE CleanLoop(_, _, _, _, _)
CleanLoop(path, r, out, dotdot, rooted) ==
    LET n == Len(path) IN
    IF r > n THEN out
    ELSE IF path[r] = "/" THEN CleanLoop(path, r + 1, out, dotdot, rooted)
    ELSE IF path[r] = "." /\ (r = n \/ path[r + 1] = "/")
         THEN CleanLoop(path, r + 1, out, dotdot, rooted)
    ELSE IF path[r] = "." /\ path[r + 1] = "." /\ (r + 1 = n \/ path[r + 2] = "/")
         THEN IF Len(out) > dotdot
              THEN CleanLoop(path, r + 2, BackLoop(out, Len(out) - 1, dotdot), dotdot, rooted)
              ELSE IF ~rooted
                   THEN LET o2 == (IF Len(out) > 0 THEN Append(out, "/") ELSE out) \o <<".", ".">>
                        IN  CleanLoop(path, r + 2, o2, Len(o2), rooted)
                   ELSE CleanLoop(path, r + 2, out, dotdot, rooted)
    ELSE LET o1 == IF (rooted /\ Len(out) # 1) \/ (~rooted /\ Len(out) # 0)
                   THEN Append(out, "/") ELSE out
             e  == ElemEnd(path, r)
         IN  CleanLoop(path, e, o1 \o SubSeq(path, r, e - 1), dotdot, rooted)

\* filepath.Clean on a slash-separated platform.
Clean(path) ==
    IF path = <<>> THEN Dot
    ELSE LET rooted == path[1] = "/"
             out    == CleanLoop(path, IF rooted THEN 2 ELSE 1,
                                 IF rooted THEN Root ELSE <<>>,
                                 IF rooted THEN 1 ELSE 0, rooted)
         IN  IF out = <<>> THEN Dot ELSE out

\* filepath.Dir: everything up to the last "/", cleaned.
Dir(path) == Clean(SubSeq(path, 1, LastSlash(path, Len(path))))

\* Join as plain concatenation, without the cleaning.
JoinNoClean(a, b) == a \o <<"/">> \o b

\* filepath.Join of two elements: empty elements are ignored, the rest is
\* joined with "/" and cleaned.
Join(a, b) ==
    IF a # <<>> THEN Clean(a \o <<"/">> \o b)
    ELSE IF b # <<>> THEN Clean(b)
    ELSE <<>>

\* ------------------------------------------------------------ pathPrefixes
\* The for loop of pathPrefixes: append the parent, stop at "." or "/".
RECURSIVE PrefixLoop(_, _)
\* The loop that returns before appending the root, as the function's comment
\* ("a/b/c", "a/b", and "a") describes it.
PrefixLoopNoRoot(path, pfxs) ==
    LET parent == Dir(path)
    IN  IF parent = Dot \/ parent = Root THEN pfxs ELSE PrefixLoop(parent, Append(pfxs, parent))

PrefixLoop(path, pfxs) ==
    LET parent == Dir(path)
        next   == Append(pfxs, parent)
    IN  IF parent = Dot \/ parent = Root THEN next ELSE PrefixLoop(parent, next)

\* pathPrefixes that returns the path alone, without its parents.
pathPrefixesSelfOnly(path) == <<Clean(path)>>

pathPrefixes(path) ==
    LET cleaned == Clean(path) IN PrefixLoop(cleaned, <<cleaned>>)

\* ------------------------------------------------------------ underlying storage
\* The storage the views wrap, in the shape of the test's fstest.MapFS: a set
\* of file paths; every proper prefix of a file is a directory, "." is the
\* root directory.  Entry names are single characters; nested files live
\* under "a".
Names == {"a", "b"}

FileUniverse == {<<x>> : x \in Names} \cup {<<"a", "/", y>> : y \in Names}

\* q is a directory prefix of p: p = q/rest.
IsUnder(p, q) == Len(p) > Len(q) + 1 /\ SubSeq(p, 1, Len(q)) = q /\ p[Len(q) + 1] = "/"

Trees ==
    {fs \in SUBSET FileUniverse :
        /\ Cardinality(fs) <= MaxFiles
        /\ \A p \in fs, q \in fs : ~IsUnder(p, q)}

\* fs.ValidPath: the loop over the elements of name.
RECURSIVE ValidElems(_)
ValidElems(name) ==
    LET i    == ElemEnd(name, 1)
        elem == SubSeq(name, 1, i - 1)
    IN  IF elem = <<>> \/ elem = <<".">> \/ elem = <<".", ".">> THEN FALSE
        ELSE IF i > Len(name) THEN TRUE
        ELSE ValidElems(SubSeq(name, i + 1, Len(name)))

ValidPath(name) == name = Dot \/ ValidElems(name)

\* The full path of entry x of directory d, as the storage names it.
Child(d, x) == IF d = Dot THEN <<x>> ELSE d \o <<"/", x>>

IsDirU(fs, p) == p = Dot \/ \E f \in fs : IsUnder(f, p)

ExistsU(fs, p) == p \in fs \/ IsDirU(fs, p)

\* The order in which the storage lists entry names.
NameOrder(rev) == IF rev THEN <<"b", "a">> ELSE <<"a", "b">>

DirEntry(fs, d, x) == [name |-> <<x>>, isDir |-> IsDirU(fs, Child(d, x))]

\* The entries of directory d, in the storage's order.
RECURSIVE ListFrom(_, _, _, _)
ListFrom(fs, d, order, i) ==
    IF i > Len(order) THEN <<>>
    ELSE (IF ExistsU(fs, Child(d, order[i])) THEN <<DirEntry(fs, d, order[i])>> ELSE <<>>)
         \o ListFrom(fs, d, order, i + 1)

UList(fs, rev, d) == ListFrom(fs, d, NameOrder(rev), 1)

\* ------------------------------------------------------------ values
NoErr == [op |-> "", path |-> <<>>, kind |-> "nil"]

PathError(op, path, kind) == [op |-> op, path |-> path, kind |-> kind]

\* A file handle.  kind "none" is the nil handle.  entry is the storage path
\* the handle reads, rdf says whether it implements fs.ReadDirFile, wraps
\* holds the path field of each directory wrapper around it (innermost
\* first), off is the storage handle's read offset.
NoHandle == [kind |-> "none", entry |-> <<>>, rdf |-> FALSE, wraps |-> <<>>, off |-> 0]

\* fsys.Open of the storage: rejects invalid names, reports absent ones,
\* otherwise returns a fresh handle.
UOpen(fs, canList, name) ==
    IF ~ValidPath(name)
    THEN [file |-> NoHandle, err |-> PathError("open", name, "invalid"), ucalls |-> 1, probed |-> <<>>]
    ELSE IF ~ExistsU(fs, name)
    THEN [file |-> NoHandle, err |-> PathError("open", name, "notexist"), ucalls |-> 1, probed |-> <<>>]
    ELSE [file |-> [kind   |-> IF IsDirU(fs, name) THEN "dir" ELSE "file",
                    entry  |-> name,
                    rdf    |-> IsDirU(fs, name) /\ canList,
                    wraps  |-> <<>>,
                    off    |-> 0],
          err |-> NoErr, ucalls |-> 1, probed |-> <<>>]

Min(a, b) == IF a < b THEN a ELSE b

\* ReadDir of a storage directory handle.  fault = -1: no failure; fault = k:
\* an I/O error after k more entries were read, which are returned with it.
UReadDir(fs, rev, h, n, fault) ==
    LET entries == UList(fs, rev, h.entry)
        rest    == SubSeq(entries, h.off + 1, Len(entries))
        want    == IF n <= 0 THEN Len(rest) ELSE Min(n, Len(rest))
    IN  IF fault >= 0
        THEN LET k == Min(fault, want)
             IN  [des |-> SubSeq(rest, 1, k), err |-> PathError("readdir", h.entry, "io"),
                  off |-> h.off + k]
        ELSE IF n > 0 /\ rest = <<>>
        THEN [des |-> <<>>, err |-> PathError("", <<>>, "EOF"), off |-> h.off]
        ELSE [des |-> SubSeq(rest, 1, want), err |-> NoErr, off |-> h.off + want]

\* ------------------------------------------------------------ Open
\* for _, pfx := range pfxs { if hide(pfx) { return ... } }: the prefixes
\* tested, and whether one was hidden.
RECURSIVE ProbeLoop(_, _, _)
ProbeLoop(pfxs, i, hidden) ==
    IF i > Len(pfxs) THEN [hit |-> FALSE, probed |-> pfxs]
    ELSE IF pfxs[i] \in hidden THEN [hit |-> TRUE, probed |-> SubSeq(pfxs, 1, i)]
    ELSE ProbeLoop(pfxs, i + 1, hidden)

\* What Open does with the result r of f.fsys.Open(name): pass an error on,
\* Stat the file, wrap a directory that can list.
\* The same without the IsDir test: every handle is wrapped.
AfterOpenWrapAll(r, name, statFails, probed) ==
    IF r.err.kind # "nil" THEN [r EXCEPT !.file = NoHandle, !.probed = probed]
    ELSE IF statFails
    THEN [file |-> NoHandle, err |-> PathError("stat", r.file.entry, "io"),
          ucalls |-> r.ucalls, probed |-> probed]
    ELSE [r EXCEPT !.file.wraps = Append(@, name), !.file.rdf = TRUE, !.probed = probed]

AfterOpen(r, name, statFails, probed) ==
    IF r.err.kind # "nil" THEN [r EXCEPT !.file = NoHandle, !.probed = probed]
    ELSE IF statFails
    THEN [file |-> NoHandle, err |-> PathError("stat", r.file.entry, "io"),
          ucalls |-> r.ucalls, probed |-> probed]
    ELSE IF r.file.kind = "dir" /\ r.file.rdf
    THEN [r EXCEPT !.file.wraps = Append(@, name), !.probed = probed]
    ELSE [r EXCEPT !.probed = probed]

\* excludeFnFS.Open.  layers are the hide predicates of the nested views,
\* innermost first, each the set of paths it is true of; the fsys of the
\* innermost view is the storage.
RECURSIVE excludeFnFS_Open(_, _, _, _, _)
excludeFnFS_Open(fs, canList, layers, name, statFails) ==
    LET hide  == layers[Len(layers)]
        inner == SubSeq(layers, 1, Len(layers) - 1)
        pr    == ProbeLoop(pathPrefixes(name), 1, hide)
    IN  IF pr.hit
        THEN [file |-> NoHandle, err |-> PathError("open", name, "notexist"),
              ucalls |-> 0, probed |-> pr.probed]
        ELSE AfterOpen(IF inner = <<>> THEN UOpen(fs, canList, name)
                       ELSE excludeFnFS_Open(fs, canList, inner, name, statFails),
                       name, statFails, pr.probed)

\* excludePathsFS.Open: the stand-alone path-set view over the storage.
excludePathsFS_Open(fs, canList, hidden, name, statFails) ==
    LET pr == ProbeLoop(pathPrefixes(name), 1, hidden)
    IN  IF pr.hit
        THEN [file |-> NoHandle, err |-> PathError("open", name, "notexist"),
              ucalls |-> 0, probed |-> pr.probed]
        ELSE AfterOpen(UOpen(fs, canList, name), name, statFails, pr.probed)

\* ------------------------------------------------------------ ReadDir
\* The in-place compaction loop of excludeFnDir.ReadDir: i is the read
\* index, dst the count kept.
RECURSIVE FnCompact(_, _, _, _, _)
\* The loop testing the entry's bare name instead of its full path.
RECURSIVE FnCompactByName(_, _, _, _, _)
FnCompactByName(des, i, dst, fpath, hide) ==
    IF i > Len(des) THEN SubSeq(des, 1, dst)
    ELSE IF des[i].name \in hide
    THEN FnCompactByName(des, i + 1, dst, fpath, hide)
    ELSE FnCompactByName([des EXCEPT ![dst + 1] = des[i]], i + 1, dst + 1, fpath, hide)

\* The loop without des = des[:dst]: the slice keeps its length and its
\* stale tail.
RECURSIVE FnCompactNoTruncate(_, _, _, _, _)
FnCompactNoTruncate(des, i, dst, fpath, hide) ==
    IF i > Len(des) THEN des
    ELSE IF Clean(fpath \o <<"/">> \o des[i].name) \in hide
    THEN FnCompactNoTruncate(des, i + 1, dst, fpath, hide)
    ELSE FnCompactNoTruncate([des EXCEPT ![dst + 1] = des[i]], i + 1, dst + 1, fpath, hide)

FnCompact(des, i, dst, fpath, hide) ==
    IF i > Len(des) THEN SubSeq(des, 1, dst)
    ELSE IF Clean(fpath \o <<"/">> \o des[i].name) \in hide
    THEN FnCompact(des, i + 1, dst, fpath, hide)
    ELSE FnCompact([des EXCEPT ![dst + 1] = des[i]], i + 1, dst + 1, fpath, hide)

\* The in-place compaction loop of excludePathsDir.ReadDir.
RECURSIVE PathsCompact(_, _, _, _, _)
PathsCompact(des, i, dst, fpath, hidden) ==
    IF i > Len(des) THEN SubSeq(des, 1, dst)
    ELSE IF Join(fpath, des[i].name) \in hidden
    THEN PathsCompact(des, i + 1, dst, fpath, hidden)
    ELSE PathsCompact([des EXCEPT ![dst + 1] = des[i]], i + 1, dst + 1, fpath, hidden)

\* The storage's answer, with the fields a wrapper's answer carries: udes and
\* uerr keep what the storage returned, ucalls counts the storage calls.
URead(fs, rev, h, n, fault) ==
    LET u == UReadDir(fs, rev, h, n, fault)
    IN  [des |-> u.des, err |-> u.err, off |-> u.off,
         udes |-> u.des, uerr |-> u.err, ucalls |-> 1]

\* excludeFnDir.ReadDir of the wrapper at depth i of handle h (depth 0 is the
\* storage handle itself).
RECURSIVE excludeFnDir_ReadDir(_, _, _, _, _, _, _)
\* ReadDir without the early return on error: what was read is filtered and
\* returned with the error.
excludeFnDir_ReadDirKeepsOnError(fs, rev, layers, h, i, n, fault) ==
    IF i = 0 THEN URead(fs, rev, h, n, fault)
    ELSE LET r == excludeFnDir_ReadDir(fs, rev, layers, h, i - 1, n, fault)
         IN  [r EXCEPT !.des = FnCompact(r.des, 1, 0, h.wraps[i], layers[i])]

excludeFnDir_ReadDir(fs, rev, layers, h, i, n, fault) ==
    IF i = 0 THEN URead(fs, rev, h, n, fault)
    ELSE LET r == excludeFnDir_ReadDir(fs, rev, layers, h, i - 1, n, fault)
         IN  IF r.err.kind # "nil" THEN [r EXCEPT !.des = <<>>]
             ELSE [r EXCEPT !.des = FnCompact(r.des, 1, 0, h.wraps[i], layers[i])]

\* excludePathsDir.ReadDir.
excludePathsDir_ReadDir(fs, rev, hidden, h, n, fault) ==
    LET r == URead(fs, rev, h, n, fault)
    IN  IF r.err.kind # "nil" THEN [r EXCEPT !.des = <<>>]
        ELSE [r EXCEPT !.des = PathsCompact(r.des, 1, 0, h.wraps[1], hidden)]

\* ------------------------------------------------------------ construction
Range(s) == {s[i] : i \in 1..Len(s)}

\* The loop of ExcludePaths over its hide arguments: the hidden map, or a
\* panic at the first ".".
RECURSIVE HideLoop(_, _, _)
HideLoop(hide, i, hidden) ==
    IF i > Len(hide) THEN [panic |-> FALSE, hidden |-> hidden]
    ELSE IF hide[i] = Dot THEN [panic |-> TRUE, hidden |-> {}]
    ELSE HideLoop(hide, i + 1, hidden \cup {hide[i]})

\* ExcludeFn without the test of hide(".").
ExcludeFnNoRootCheck(hide) == [panic |-> FALSE, hidden |-> hide]

\* ExcludeFn: panics if hide(".").
ExcludeFn(hide) ==
    IF Dot \in hide THEN [panic |-> TRUE, hidden |-> {}]
    ELSE [panic |-> FALSE, hidden |-> hide]

\* ExcludePaths of the predicate-based file: builds the map, then ExcludeFn.
ExcludePaths(hide) ==
    LET m == HideLoop(hide, 1, {})
    IN  IF m.panic THEN m ELSE ExcludeFn(m.hidden)

\* ExcludePaths of the stand-alone file.
ExcludePathsOld(hide) == HideLoop(hide, 1, {})

\* ------------------------------------------------------------ state
\* Three views of one storage are driven in step: "paths" is the stand-alone
\* path-set view, "fn" the predicate-based view of the same paths, "nest" a
\* predicate-based view wrapped in a second one.
Views == {"paths", "fn", "nest"}

\* The paths a hide list or predicate may name.
HideUniverse == FileUniverse \cup {Dot}

RECURSIVE ListsUpTo(_, _)
ListsUpTo(S, n) ==
    IF n = 0 THEN {<<>>}
    ELSE LET shorter == ListsUpTo(S, n - 1)
         IN  shorter \cup {Append(s, x) : s \in {t \in shorter : Len(t) = n - 1}, x \in S}

VARIABLES
    files,      \* the storage: its file paths
    listable,   \* whether the storage's directory handles implement ReadDirFile
    reversed,   \* the storage's listing order
    phase,      \* per view: "new", "built" or "panicked"
    layers,     \* per view: the hide sets of its wrappers, innermost first
    rootAsked,  \* whether the construction was asked to hide "."
    op,         \* the last call: "none", "build", "open", "readdir"
    name,       \* the name of the last Open
    statErr,    \* whether Stat failed on the storage handle of the last Open
    count,      \* the n of the last ReadDir
    res,        \* per view: the result of the last call
    hnd,        \* per view: the handle the last Open returned
    trk,        \* per view: what the handle's ReadDir calls returned so far
    pin,        \* pathPrefixes alone: its argument
    pout        \* pathPrefixes alone: its result

vars == <<files, listable, reversed, phase, layers, rootAsked, op, name, statErr,
          count, res, hnd, trk, pin, pout>>

storage == <<files, listable, reversed>>

config == <<phase, layers, rootAsked>>

NoRes == [kind |-> "none"]

NoTrk == [acc |-> <<>>, done |-> FALSE, ioerr |-> FALSE]

Init ==
    /\ files \in Trees
    /\ listable \in BOOLEAN
    /\ reversed \in BOOLEAN
    \* the listing order of a storage that cannot list is immaterial
    /\ listable \/ ~reversed
    /\ phase = [v \in Views |-> "new"]
    /\ layers = [v \in Views |-> <<>>]
    /\ rootAsked = FALSE
    /\ op = "none"
    /\ name = <<>>
    /\ statErr = FALSE
    /\ count = 0
    /\ res = [v \in Views |-> NoRes]
    /\ hnd = [v \in Views |-> NoHandle]
    /\ trk = [v \in Views |-> NoTrk]
    /\ pin = <<>>
    /\ pout = <<>>

\* The state after the three constructions; made[v] is the sequence of
\* constructor results of view v, innermost first.  A panic leaves no view.
Built(made) ==
    /\ phase' = [v \in Views |->
                    IF \E i \in 1..Len(made[v]) : made[v][i].panic THEN "panicked" ELSE "built"]
    /\ layers' = [v \in Views |->
                    IF phase'[v] = "built" THEN [i \in 1..Len(made[v]) |-> made[v][i].hidden]
                    ELSE <<>>]
    /\ op' = "build"
    /\ UNCHANGED <<storage, name, statErr, count, res, hnd, trk, pin, pout>>

\* Construction from a path list: the stand-alone view and the predicate-based
\* view of the whole list, and ExcludePaths(ExcludePaths(fsys, the first k
\* paths), the rest).
BuildByPaths ==
    /\ \A v \in Views : phase[v] = "new"
    /\ \E hide \in ListsUpTo(HideUniverse, MaxHide), k \in 0..MaxHide :
        /\ k <= Len(hide)
        /\ rootAsked' = (Dot \in Range(hide))
        /\ Built([v \in Views |->
                    CASE v = "paths" -> <<ExcludePathsOld(hide)>>
                      [] v = "fn"    -> <<ExcludePaths(hide)>>
                      [] v = "nest"  -> <<ExcludePaths(SubSeq(hide, 1, k)),
                                          ExcludePaths(SubSeq(hide, k + 1, Len(hide)))>>])

\* Construction from a predicate, given as the set of paths it is true of;
\* the stand-alone view is built from the same set, the nested pair wraps the
\* predicate view in one that hides nothing.
BuildByPredicate ==
    /\ \A v \in Views : phase[v] = "new"
    /\ \E hide \in SUBSET HideUniverse :
        /\ Cardinality(hide) <= MaxHide
        /\ rootAsked' = (Dot \in hide)
        /\ Built([v \in Views |->
                    CASE v = "paths" ->
                           <<ExcludePathsOld(CHOOSE l \in ListsUpTo(HideUniverse, MaxHide) :
                                                 Range(l) = hide /\ Len(l) = Cardinality(hide))>>
                      [] v = "fn"    -> <<ExcludeFn(hide)>>
                      [] v = "nest"  -> <<ExcludeFn(hide), ExcludeFn({})>>])

ViewOpen(v, nm, statFails) ==
    IF v = "paths"
    THEN excludePathsFS_Open(files, listable, layers[v][1], nm, statFails)
    ELSE excludeFnFS_Open(files, listable, layers[v], nm, statFails)

\* The view keeps no state between calls, so one Open is followed per
\* behaviour: the handle it returns is then read with ReadDir.
Open ==
    /\ \A v \in Views : phase[v] = "built"
    /\ op = "build"
    /\ \E nm \in StringsUpTo(MaxLen) :
      \* Stat can fail only on a handle the storage returned
      \E statFails \in IF UOpen(files, listable, nm).err.kind = "nil" THEN BOOLEAN ELSE {FALSE} :
        /\ op' = "open"
        /\ name' = nm
        /\ statErr' = statFails
        /\ res' = [v \in Views |-> ViewOpen(v, nm, statFails)]
        /\ hnd' = [v \in Views |-> res'[v].file]
        /\ trk' = [v \in Views |-> NoTrk]
    /\ UNCHANGED <<storage, config, count, pin, pout>>

CanReadDir(h) == h.kind = "dir" /\ h.rdf

ViewReadDir(v, n, fault) ==
    IF v = "paths" /\ Len(hnd[v].wraps) > 0
    THEN excludePathsDir_ReadDir(files, reversed, layers[v][1], hnd[v], n, fault)
    ELSE excludeFnDir_ReadDir(files, reversed, layers[v], hnd[v], Len(hnd[v].wraps), n, fault)

\* The caller's record of a handle: the entries returned so far, whether the
\* listing ended (end-of-listing, or a successful read-all), whether the
\* storage reported an I/O error.
Track(t, r, n) ==
    [acc   |-> t.acc \o r.des,
     done  |-> t.done \/ r.uerr.kind = "EOF" \/ (n <= 0 /\ r.uerr.kind = "nil"),
     ioerr |-> t.ioerr \/ r.uerr.kind = "io"]

ReadDir ==
    /\ \A v \in Views : phase[v] = "built" /\ CanReadDir(hnd[v])
    /\ \E n \in 0..MaxN, fault \in -1..MaxFault :
        /\ op' = "readdir"
        /\ count' = n
        /\ res' = [v \in Views |-> ViewReadDir(v, n, fault)]
        /\ hnd' = [v \in Views |-> [hnd[v] EXCEPT !.off = res'[v].off]]
        /\ trk' = [v \in Views |-> Track(trk[v], res'[v], n)]
    /\ UNCHANGED <<storage, config, name, statErr, pin, pout>>

Next == BuildByPaths \/ BuildByPredicate \/ Open \/ ReadDir

Spec == Init /\ [][Next]_vars

\* ------------------------------------------------------------ pathPrefixes alone
InitPrefixes ==
    /\ pin \in StringsUpTo(MaxPathLen)
    /\ pout = <<>>
    /\ files = {}
    /\ listable = FALSE
    /\ reversed = FALSE
    /\ phase = [v \in Views |-> "new"]
    /\ layers = [v \in Views |-> <<>>]
    /\ rootAsked = FALSE
    /\ op = "none"
    /\ name = <<>>
    /\ statErr = FALSE
    /\ count = 0
    /\ res = [v \in Views |-> NoRes]
    /\ hnd = [v \in Views |-> NoHandle]
    /\ trk = [v \in Views |-> NoTrk]

ApplyPathPrefixes ==
    /\ pout = <<>>
    /\ pout' = pathPrefixes(pin)
    /\ UNCHANGED <<storage, config, op, name, statErr, count, res, hnd, trk, pin>>

SpecPrefixes == InitPrefixes /\ [][ApplyPathPrefixes]_vars

\* ------------------------------------------------------------ paths, by segments
\* The vocabulary of the properties: a path as its list of segments, worked
\* out segment by segment rather than by filepath.Clean.
RECURSIVE Segs(_)
Segs(p) ==
    LET i == ElemEnd(p, 1)
    IN  <<SubSeq(p, 1, i - 1)>> \o (IF i > Len(p) THEN <<>> ELSE Segs(SubSeq(p, i + 1, Len(p))))

IsRooted(p) == p # <<>> /\ p[1] = "/"

\* The segments that remain once empty and "." segments are dropped and each
\* ".." has removed the segment before it (kept when nothing precedes it in a
\* relative path, dropped at the root of a rooted one).
RECURSIVE NormSegs(_, _, _, _)
NormSegs(segs, i, stack, rooted) ==
    IF i > Len(segs) THEN stack
    ELSE IF segs[i] = <<>> \/ segs[i] = <<".">> THEN NormSegs(segs, i + 1, stack, rooted)
    ELSE IF segs[i] = <<".", ".">>
    THEN IF stack # <<>> /\ stack[Len(stack)] # <<".", ".">>
         THEN NormSegs(segs, i + 1, SubSeq(stack, 1, Len(stack) - 1), rooted)
         ELSE IF rooted THEN NormSegs(segs, i + 1, stack, rooted)
         ELSE NormSegs(segs, i + 1, Append(stack, segs[i]), rooted)
    ELSE NormSegs(segs, i + 1, Append(stack, segs[i]), rooted)

RECURSIVE JoinSegs(_)
JoinSegs(segs) ==
    IF segs = <<>> THEN <<>>
    ELSE IF Len(segs) = 1 THEN segs[1]
    ELSE segs[1] \o <<"/">> \o JoinSegs(Tail(segs))

Render(rooted, segs) ==
    IF rooted THEN Root \o JoinSegs(segs)
    ELSE IF segs = <<>> THEN Dot
    ELSE JoinSegs(segs)

Segments(p) == NormSegs(Segs(p), 1, <<>>, IsRooted(p))

\* The cleaned form of p.
Cleaned(p) == Render(IsRooted(p), Segments(p))

\* The cleaned p, then each parent directory up to the root.
AncestorChain(p) ==
    LET segs == Segments(p)
    IN  [i \in 1..(Len(segs) + 1) |-> Render(IsRooted(p), SubSeq(segs, 1, Len(segs) + 1 - i))]

\* All the paths view v hides by name.
Hidden(v) == UNION Range(layers[v])

\* The cleaned p and its ancestor directories, as a set.
Ancestors(p) ==
    LET segs == Segments(p)
    IN  {Render(IsRooted(p), SubSeq(segs, 1, k)) : k \in 0..Len(segs)}

\* The cleaned p or one of its ancestor directories is hidden by name in v.
Excluded(v, p) == Ancestors(p) \cap Hidden(v) # {}

\* The storage's own answer to Open(p).
Under(p) == UOpen(files, listable, p)

\* The listing of storage directory d less the entries view v hides by name.
Visible(v, d) ==
    LET Keep(e) == Child(d, e.name[1]) \notin Hidden(v)
    IN  SelectSeq(UList(files, reversed, d), Keep)

\* ------------------------------------------------------------ properties
\* A storage path that is absent from every tree: its Open is the storage's
\* own not-exist answer.
Absent == <<"b", "/", "b">>

\* C1: whenever the cleaned name or one of its ancestor directories is
\* hidden, Open fails with a not-exist error naming the requested path, of the
\* kind the storage gives for an absent path, returns no handle, and never
\* calls the storage's Open.
C1_HiddenOpenFails ==
    op = "open" =>
        LET anc == Ancestors(name)
        IN  \A v \in Views :
                anc \cap Hidden(v) # {} =>
                    /\ res[v].err = PathError("open", name, "notexist")
                    /\ res[v].err.kind = Under(Absent).err.kind
                    /\ res[v].file = NoHandle
                    /\ res[v].ucalls = 0

\* An existing file whose parent directory, not the file itself, is hidden.
C1_Witness ==
    /\ op = "open"
    /\ Len(name) = 3
    /\ name \in files
    /\ name \notin Hidden("fn")
    /\ Excluded("fn", name)
    /\ res["fn"].err.kind = "notexist"

\* The handle res is the storage's entry u: a file handle is u unchanged,
\* and the handle is wrapped exactly when u is a directory that can list.
SameEntry(r, u) ==
    /\ r.err = NoErr
    /\ r.file.kind = u.file.kind
    /\ r.file.entry = u.file.entry
    /\ (u.file.kind = "file" => r.file = u.file)
    /\ (r.file.wraps # <<>>) = (u.file.kind = "dir" /\ u.file.rdf)
    /\ (r.file.wraps = <<>> => r.file = u.file)

\* C2 as stated: every Open of a visible path the storage opens succeeds and
\* returns the storage's entry; a file handle is returned unchanged and only a
\* directory that can list is wrapped.
C2_VisibleOpenSucceeds ==
    op = "open" =>
        LET u   == Under(name)
            anc == Ancestors(name)
        IN  u.err.kind = "nil" =>
                \A v \in Views : anc \cap Hidden(v) = {} => SameEntry(res[v], u)

\* C2 as amended: the same whenever Stat of the opened handle succeeds; when
\* Stat fails, Open returns the Stat error and no handle.
C2_VisibleOpenSucceedsUnlessStatFails ==
    op = "open" =>
        LET u   == Under(name)
            anc == Ancestors(name)
        IN  u.err.kind = "nil" =>
                \A v \in Views :
                    anc \cap Hidden(v) = {} =>
                        IF statErr
                        THEN /\ res[v].err = PathError("stat", name, "io")
                             /\ res[v].file = NoHandle
                        ELSE SameEntry(res[v], u)

\* A visible file opened through a view that hides something else.
C2_Witness ==
    /\ op = "open"
    /\ name \in files
    /\ Hidden("fn") # {}
    /\ ~Excluded("fn", name)
    /\ ~statErr
    /\ res["fn"].file = Under(name).file

\* C3: once the listing of a wrapped directory has ended (end-of-listing
\* after calls with n > 0, or a read-all call) without an I/O error, the
\* entries returned, in order, are the storage's entries less those whose
\* full path is hidden.
C3_ListingIsFiltered ==
    op = "readdir" =>
        \A v \in Views :
            (trk[v].done /\ ~trk[v].ioerr) => trk[v].acc = Visible(v, hnd[v].entry)

\* A listing of a nested directory read one entry at a time to its end, with
\* an entry dropped and an entry kept.
C3_Witness ==
    /\ op = "readdir"
    /\ count = 1
    /\ hnd["fn"].entry # Dot
    /\ trk["fn"].done
    /\ ~trk["fn"].ioerr
    /\ Len(trk["fn"].acc) = 1
    /\ Len(UList(files, reversed, hnd["fn"].entry)) = 2

\* C4: a construction asked to hide the root panics and leaves no view, any
\* other construction builds one; a built view does not hide ".", and its
\* Open of the root always reaches the storage.
C4_RootNeverHidden ==
    \A v \in Views :
        /\ op # "none" => (phase[v] = "panicked") = rootAsked
        /\ phase[v] = "panicked" => layers[v] = <<>> /\ hnd[v] = NoHandle /\ res[v] = NoRes
        /\ phase[v] = "built" => Dot \notin Hidden(v)
        /\ (op = "open" /\ Cleaned(name) = Dot) => res[v].ucalls = 1

\* A construction that was asked to hide the root.
C4_Witness == op = "build" /\ rootAsked /\ \A v \in Views : phase[v] = "panicked"

\* What a caller sees of a call's result.
Outcome(r) ==
    IF "file" \in DOMAIN r
    THEN [err |-> r.err, kind |-> r.file.kind, entry |-> r.file.entry,
          lists |-> r.file.kind = "dir" /\ r.file.rdf]
    ELSE [err |-> r.err, des |-> r.des]

\* C5: a path-set view wrapped in a second path-set view gives, for every
\* Open and every ReadDir, the outcome of the single view of the union of
\* the two sets.
C5_NestingIsUnion ==
    /\ phase["nest"] = phase["fn"]
    /\ phase["fn"] = "built" => Hidden("nest") = Hidden("fn")
    /\ op \in {"open", "readdir"} =>
        /\ Outcome(res["nest"]) = Outcome(res["fn"])
        /\ trk["nest"] = trk["fn"]
        /\ hnd["nest"].off = hnd["fn"].off

\* A listing through two wrappers, each hiding a path of its own, with an
\* entry dropped.
C5_Witness ==
    /\ op = "readdir"
    /\ Len(layers["nest"]) = 2
    /\ layers["nest"][1] # {}
    /\ layers["nest"][2] # {}
    /\ layers["nest"][1] # layers["nest"][2]
    /\ res["nest"].err = NoErr
    /\ Len(res["nest"].des) < Len(res["nest"].udes)

C7_PathsEqualsPredicate ==
    /\ phase["paths"] = phase["fn"]
    /\ layers["paths"] = layers["fn"]
    /\ res["paths"] = res["fn"]
    /\ hnd["paths"] = hnd["fn"]
    /\ trk["paths"] = trk["fn"]

\* A listing of the root through both, with an entry dropped.
C7_Witness ==
    /\ op = "readdir"
    /\ hnd["paths"].entry = Dot
    /\ res["paths"].err = NoErr
    /\ Len(res["paths"].des) < Len(res["paths"].udes)

\* C8 as stated: for Open(".") the prefixes tested are the one-element
\* sequence <<".">>, so the predicate is evaluated on the root once.
C8_RootChainIsOneElement ==
    (op = "open" /\ name = Dot) => \A v \in Views : res[v].probed = <<Dot>>

\* C9 as stated: a ReadDir with n > 0 returns at most n entries, returns
\* end-of-listing exactly when the storage does, and never returns no entries
\* and no error while entries remain in the storage directory.
C9_NoEmptyBatchWithoutError ==
    (op = "readdir" /\ count > 0) =>
        \A v \in Views :
            /\ Len(res[v].des) <= count
            /\ (res[v].err.kind = "EOF") = (res[v].uerr.kind = "EOF")
            /\ (res[v].des = <<>> /\ hnd[v].off < Len(UList(files, reversed, hnd[v].entry)))
                    => res[v].err.kind # "nil"

\* C10: an Open that is not excluded calls the storage once and returns the
\* storage's error, with no handle, when it gives one; every error of Open is
\* the exclusion error, the storage's Open error or its Stat error; ReadDir
\* calls the storage once and returns its error, with no entries, when it
\* gives one, and no error otherwise.
C10_ErrorsPassThrough ==
    /\ op = "open" =>
        LET u   == Under(name)
            anc == Ancestors(name)
        IN  \A v \in Views :
                /\ anc \cap Hidden(v) = {} =>
                    /\ res[v].ucalls = 1
                    /\ u.err.kind # "nil" => res[v].err = u.err /\ res[v].file = NoHandle
                /\ res[v].err.kind # "nil" =>
                    \/ anc \cap Hidden(v) # {} /\ res[v].ucalls = 0
                    \/ res[v].err = u.err
                    \/ statErr /\ res[v].err = PathError("stat", name, "io")
    /\ op = "readdir" =>
        \A v \in Views :
            /\ res[v].ucalls = 1
            /\ res[v].uerr.kind # "nil" => res[v].err = res[v].uerr /\ res[v].des = <<>>
            /\ res[v].uerr.kind = "nil" => res[v].err = NoErr

\* A storage ReadDir that fails after reading an entry.
C10_Witness ==
    /\ op = "readdir"
    /\ res["fn"].uerr.kind = "io"
    /\ res["fn"].udes # <<>>
    /\ res["fn"].des = <<>>
====
